---- MODULE Spec2Model ----
(***************************************************************************)
(* AJAXSpider (crawl_ajax.py): an asyncio crawler.  One run owns a FIFO    *)
(* asyncio.Queue of (url, depth) items, a visited set and a result list;   *)
(* `concurrency` worker tasks pop items, probe each url with six HTTP      *)
(* methods in turn and push the links of an HTML GET response; run() waits *)
(* on queue.join(), cancels the workers and saves the results.             *)
(*                                                                         *)
(* A step of the model is what one task does between two suspensions of    *)
(* the event loop (a blocked queue.get(), an outstanding request).         *)
(***************************************************************************)
EXTENDS Integers, Sequences, FiniteSets, Bags, TLC

VARIABLES
    start_url,    \* self.start_url
    max_depth,    \* self.max_depth
    concurrency,  \* self.concurrency
    web,          \* the site crawled: what a request to each path answers
    visited,      \* self.visited
    results,      \* self.results
    queue,        \* self.queue: the items waiting in the asyncio.Queue
    unfinished,   \* self.queue._unfinished_tasks
    mainpc,       \* where run() is
    wpc,          \* where each worker task is
    held,         \* the (url, depth) a worker is inside process_url with
    midx,         \* the index in `methods` of the request a worker awaits
    cancelled,    \* whether Task.cancel() was called on a worker
    inflight,     \* requests issued to the session and not yet returned
    output,       \* the dumps save_results wrote to output_file
    admitted,     \* history: bag of (url, depth) that passed process_url's guard
    pushes,       \* history: bag of (url, depth) ever put on the queue
    returned      \* history: bag of (url, method, "ok" | "fail") of returned requests

vars == <<start_url, max_depth, concurrency, web, visited, results, queue,
          unfinished, mainpc, wpc, held, midx, cancelled, inflight, output,
          admitted, pushes, returned>>

config == <<start_url, max_depth, concurrency, web>>

-----------------------------------------------------------------------------
(* Bounds of the model. *)

\* max_depth is drawn from 0..MaxDepth
MaxDepth == 3
\* concurrency is drawn from 0..MaxConcurrency
MaxConcurrency == 2

-----------------------------------------------------------------------------
(* URLs, references and the pure helpers. *)

None == "None"

methods == <<"GET", "POST", "PUT", "DELETE", "HEAD", "OPTIONS">>

\* An absolute URL without fragment, and a reference as written in a page:
\* scheme "" is a relative reference, path "" with a fragment is "#frag".
Url(scheme, path) == [scheme |-> scheme, path |-> path]
Ref(scheme, path, frag) == [scheme |-> scheme, path |-> path, frag |-> frag]

\* urljoin raises ValueError on a reference such as "http://[" .
Malformed(link) == link.path = "["

urljoin(base_url, link) ==
    IF link.scheme = ""
    THEN [scheme |-> base_url.scheme,
          path   |-> IF link.path = "" THEN base_url.path ELSE link.path,
          frag   |-> link.frag]
    ELSE link

urldefrag(full_url) == [scheme |-> full_url.scheme, path |-> full_url.path]

is_valid(url) == url.scheme \in {"http", "https"}

\* `if link:` an empty attribute value is skipped
Truthy(link) == link # Ref("", "", "")

extract_links(html, base_url) ==
    { u \in { urldefrag(urljoin(base_url, html[i])) :
                i \in { j \in 1..Len(html) : Truthy(html[j]) } } : is_valid(u) }

\* extract_links raises when urljoin does
extract_raises(html) ==
    \E i \in 1..Len(html) : Truthy(html[i]) /\ Malformed(html[i])

IsHtml(content_type) == content_type \in {"text/html", "text/html; charset=utf-8"}

\* The orders in which `for link in links` may iterate the set
Orders(S) ==
    { f \in [1..Cardinality(S) -> S] : \A i, j \in 1..Cardinality(S) : f[i] = f[j] => i = j }

-----------------------------------------------------------------------------
(* The sites crawled.  A page: the methods that are answered (any other    *)
(* request raises inside fetch), the Content-Type and the references of    *)
(* the body.                                                               *)

Page(ok, ctype, body) == [ok |-> ok, ctype |-> ctype, body |-> body]

AllMethods == { methods[i] : i \in 1..Len(methods) }

Rel(path) == Ref("", path, "")

\* GET on the seed answers <a href='/x'>, everything else fails
WebP6 ==
    [ s |-> Page({"GET"}, "text/html", << Rel("x") >>),
      x |-> Page({}, "text/html", << Rel("s") >>) ]

\* every request is answered; the pages link to each other and to themselves
WebAllOk ==
    [ s |-> Page(AllMethods, "text/html; charset=utf-8",
                 << Rel("a"), Ref("", "", "top"), Ref("mailto", "me", "") >>),
      a |-> Page(AllMethods, "text/html", << Ref("http", "s", "f"), Ref("", "", "") >>) ]

\* x is linked from b (three hops from s) and from c (two hops); y only from
\* x, and y's body is empty
WebRace ==
    [ s |-> Page({"GET"}, "text/html", << Rel("a"), Rel("c") >>),
      a |-> Page({"GET"}, "text/html", << Rel("b") >>),
      b |-> Page({"GET"}, "text/html", << Ref("", "x", "f") >>),
      c |-> Page({"GET"}, "text/html", << Rel("x") >>),
      x |-> Page({"GET", "HEAD"}, "text/html", << Rel("y") >>),
      y |-> Page({"GET"}, "text/html", << >>) ]

\* no request is answered
WebDown ==
    [ s |-> Page({}, "text/html", << Rel("a") >>) ]

\* j is not HTML; u holds a reference urljoin rejects
WebMixed ==
    [ s |-> Page({"GET", "POST"}, "text/html", << Rel("j"), Rel("u") >>),
      j |-> Page({"GET", "POST"}, "application/json", << Rel("a") >>),
      u |-> Page({"GET", "POST"}, "text/html", << Rel("a"), Ref("http", "[", "") >>) ]

\* a and b both link to x, one of them with a fragment
WebDiamond ==
    [ s |-> Page({"GET"}, "text/html", << Rel("a"), Rel("b") >>),
      a |-> Page({"GET"}, "text/html", << Ref("", "x", "f") >>),
      b |-> Page({"GET"}, "text/html", << Ref("http", "x", "") >>),
      x |-> Page({"GET", "HEAD"}, "text/html", << Rel("s") >>) ]

Webs == { WebP6, WebAllOk, WebDiamond, WebDown, WebMixed }

\* the pages and links of WebRace, every request answered
WebRaceAllOk ==
    [ p \in DOMAIN WebRace |-> Page(AllMethods, "text/html", WebRace[p].body) ]

\* the sites of LoopSpec
LoopWebs == Webs \cup { WebRace }

\* the sites of SlowSpec
SlowWebs == { WebMixed, WebRaceAllOk }

Seeds == { Url("http", "s"), Url("ftp", "s") }

\* What `await self.fetch(url, method)` returns: (status, content, headers),
\* or (None, None, None) when the request raised.
fetch(url, method) ==
    IF /\ is_valid(url)
       /\ url.path \in DOMAIN web
       /\ method \in web[url.path].ok
    THEN [status  |-> "200",
          content |-> web[url.path].body,
          headers |-> [ContentType |-> web[url.path].ctype]]
    ELSE [status |-> None, content |-> None, headers |-> None]

-----------------------------------------------------------------------------
(* Construction. *)

\* __init__, for a site among `sites`
Constructed(sites) ==
    /\ start_url \in Seeds
    /\ max_depth \in 0..MaxDepth
    /\ concurrency \in 0..MaxConcurrency
    /\ web \in sites
    /\ visited = {}
    /\ results = << >>
    /\ queue = << <<start_url, 0>> >>
    /\ unfinished = 1
    /\ mainpc = "new"
    /\ wpc = << >>
    /\ held = << >>
    /\ midx = << >>
    /\ cancelled = << >>
    /\ inflight = {}
    /\ output = << >>
    /\ admitted = EmptyBag
    /\ pushes = SetToBag({ <<start_url, 0>> })
    /\ returned = EmptyBag

Init == Constructed(Webs)

LoopInit == Constructed(LoopWebs)

SlowInit == Constructed(SlowWebs)

-----------------------------------------------------------------------------
(* process_url and the asyncio.Queue calls it and worker make. *)

\* process_url without the visited test
process_url_skips_depth_only(url, depth) == depth > max_depth

\* process_url without the depth test
process_url_skips_visited_only(url, depth) == url \in visited

\* process_url with the depth test off by one
process_url_skips_late(url, depth) == url \in visited \/ depth > max_depth + 1

\* `if url in self.visited or depth > self.max_depth: return`
process_url_skips(url, depth) == url \in visited \/ depth > max_depth

\* the address is not remembered
visited_add_missing(vis, url) == vis

\* `self.visited.add(url)`
visited_add(vis, url) == vis \cup {url}

\* the error of a request is raised out of fetch
fetch_raises_on_failure(r) == r.status = None

\* `except Exception as e: ... return None, None, None`: whatever the
\* request did, fetch returns to process_url and raises nothing
fetch_raises(r) == FALSE

\* every response is appended, a failed one too
recorded_always(status) == TRUE

\* `if status is not None:` the response is appended to self.results
recorded(status) == status # None

\* the links of every method's response are followed
drives_links_any_method(method, r) ==
    /\ IsHtml(r.headers.ContentType)
    /\ r.content # << >>

\* the links of a GET response are followed whatever its Content-Type
drives_links_any_type(method, r) ==
    /\ method = "GET"
    /\ r.content # << >>

\* `if method == 'GET' and 'text/html' in headers.get('Content-Type', '') and content`
drives_links(method, r) ==
    /\ method = "GET"
    /\ IsHtml(r.headers.ContentType)
    /\ r.content # << >>

\* a link is put with the depth of the page it was found on
child_depth_same(depth) == depth

\* `(link, depth + 1)`
child_depth(depth) == depth + 1

\* the methods of an item requested together instead of one after the other
request_all(w, url, i) == { <<w, url, methods[j]>> : j \in i..Len(methods) }

\* the requests `await self.fetch(url, method=method)` hands to the session
\* for the i-th method
request(w, url, i) == { <<w, url, methods[i]>> }

\* task_done() not called
task_done_missing(unf) == unf

\* Queue.task_done(): one unfinished task less
task_done(unf) == unf - 1

\* the handler of an unexpected error does not call task_done()
task_done_after_error_missing(unf) == unf

\* `except Exception as e: ... self.queue.task_done()`
task_done_after_error(unf) == task_done(unf)

\* Queue.put(): one unfinished task more per item
put(unf, items) == unf + Len(items)

\* queue.join() not awaited
join_skipped(unf) == FALSE

\* Queue.join(): `if self._unfinished_tasks > 0: await self._finished.wait()`
join_blocks(unf) == unf > 0

\* run() resumed as soon as the queue is found empty
JoinWakes_queue_empty(unf, q) == q = << >>

\* queue.join() resumes run() when task_done() finds nothing unfinished
JoinWakes(unf, q) == unf = 0

\* the outcome names the first method instead of the one requested
Outcome_first_method(url, method, r) ==
    [url |-> url, method |-> methods[1], status |-> r.status, headers |-> r.headers]

\* the dict process_url appends to self.results
Outcome(url, method, r) ==
    [url |-> url, method |-> method, status |-> r.status, headers |-> r.headers]

Items(order, depth) == [i \in 1..Len(order) |-> <<order[i], child_depth(depth)>>]

BagOfSeq(seq) ==
    [e \in { seq[i] : i \in 1..Len(seq) } |-> Cardinality({ i \in 1..Len(seq) : seq[i] = e })]

-----------------------------------------------------------------------------
(* worker *)

\* `url, depth = await self.queue.get()` and process_url up to its first
\* request, or to its early return and task_done()
worker_get(w) ==
    /\ w \in DOMAIN wpc
    /\ wpc[w] = "get"
    /\ ~cancelled[w]
    /\ queue # << >>
    /\ LET url == Head(queue)[1]
           depth == Head(queue)[2]
       IN  /\ queue' = Tail(queue)
           /\ IF process_url_skips(url, depth)
              THEN /\ unfinished' = task_done(unfinished)
                   /\ mainpc' = IF mainpc = "join" /\ JoinWakes(unfinished', queue')
                                THEN "cancel" ELSE mainpc
                   /\ UNCHANGED <<visited, wpc, held, midx, inflight, admitted>>
              ELSE /\ visited' = visited_add(visited, url)
                   /\ wpc' = [wpc EXCEPT ![w] = "fetch"]
                   /\ held' = [held EXCEPT ![w] = <<url, depth>>]
                   /\ midx' = [midx EXCEPT ![w] = 1]
                   /\ inflight' = inflight \cup request(w, url, 1)
                   /\ admitted' = admitted (+) SetToBag({ <<url, depth>> })
                   /\ UNCHANGED <<unfinished, mainpc>>
    /\ UNCHANGED <<config, results, cancelled, output, pushes, returned>>

\* The loop of process_url after one response, new items `items` having been
\* put: the next method's request, or the return and worker's task_done().
\* `raised`: an exception left process_url (worker's `except Exception`).
Proceed(w, items, raised) ==
    LET url == held[w][1]
        cur == <<w, url, methods[midx[w]]>>
    IN  /\ queue' = queue \o items
        /\ pushes' = pushes (+) BagOfSeq(items)
        /\ IF ~raised /\ midx[w] < Len(methods)
           THEN /\ midx' = [midx EXCEPT ![w] = midx[w] + 1]
                /\ inflight' = (inflight \ {cur}) \cup request(w, url, midx[w] + 1)
                /\ unfinished' = put(unfinished, items)
                /\ UNCHANGED <<wpc, held, mainpc>>
           ELSE /\ midx' = [midx EXCEPT ![w] = 0]
                /\ inflight' = inflight \ {cur}
                /\ wpc' = [wpc EXCEPT ![w] = "get"]
                /\ held' = [held EXCEPT ![w] = << >>]
                /\ unfinished' = IF raised
                                 THEN task_done_after_error(put(unfinished, items))
                                 ELSE task_done(put(unfinished, items))
                /\ mainpc' = IF mainpc = "join" /\ JoinWakes(unfinished', queue')
                             THEN "cancel" ELSE mainpc

Awaiting(w) ==
    /\ w \in DOMAIN wpc
    /\ wpc[w] = "fetch"
    /\ ~cancelled[w]
    /\ <<w, held[w][1], methods[midx[w]]>> \in inflight

\* the request raised: fetch returns (None, None, None)
fetch_failed(w) ==
    /\ Awaiting(w)
    /\ LET url == held[w][1]
           method == methods[midx[w]]
           r == fetch(url, method)
       IN  /\ r.status = None
           /\ results' = IF recorded(r.status)
                         THEN Append(results, Outcome(url, method, r)) ELSE results
           /\ returned' = returned (+) SetToBag({ <<url, method, "fail">> })
           /\ Proceed(w, << >>, fetch_raises(r))
    /\ UNCHANGED <<config, visited, cancelled, output, admitted>>

\* the request was answered: the outcome is appended and, for an HTML GET,
\* the links are put on the queue
fetch_answered(w) ==
    /\ Awaiting(w)
    /\ LET url == held[w][1]
           depth == held[w][2]
           method == methods[midx[w]]
           r == fetch(url, method)
       IN  /\ r.status # None
           /\ ~(drives_links(method, r) /\ extract_raises(r.content))
           /\ results' = IF recorded(r.status)
                         THEN Append(results, Outcome(url, method, r)) ELSE results
           /\ returned' = returned (+) SetToBag({ <<url, method, "ok">> })
           /\ IF drives_links(method, r)
              THEN \E order \in Orders(extract_links(r.content, url)) :
                       Proceed(w, Items(order, depth), FALSE)
              ELSE Proceed(w, << >>, FALSE)
    /\ UNCHANGED <<config, visited, cancelled, output, admitted>>

\* the GET was answered and appended, extract_links raised: worker logs the
\* error and calls task_done(), the other methods are not requested
extract_failed(w) ==
    /\ Awaiting(w)
    /\ LET url == held[w][1]
           method == methods[midx[w]]
           r == fetch(url, method)
       IN  /\ r.status # None
           /\ drives_links(method, r)
           /\ extract_raises(r.content)
           /\ results' = IF recorded(r.status)
                         THEN Append(results, Outcome(url, method, r)) ELSE results
           /\ returned' = returned (+) SetToBag({ <<url, method, "ok">> })
           /\ Proceed(w, << >>, TRUE)
    /\ UNCHANGED <<config, visited, cancelled, output, admitted>>

\* CancelledError reaches the worker at the await it is suspended in: `break`
worker_cancelled(w) ==
    /\ w \in DOMAIN wpc
    /\ cancelled[w]
    /\ wpc[w] \in {"get", "fetch"}
    /\ wpc' = [wpc EXCEPT ![w] = "exit"]
    /\ inflight' = { p \in inflight : p[1] # w }
    /\ UNCHANGED <<config, visited, results, queue, unfinished, mainpc, held, midx,
                   cancelled, output, admitted, pushes, returned>>

-----------------------------------------------------------------------------
(* run *)

\* the session is opened, the workers are created, run() awaits queue.join()
run_start ==
    /\ mainpc = "new"
    /\ wpc' = [w \in 1..concurrency |-> "get"]
    /\ held' = [w \in 1..concurrency |-> << >>]
    /\ midx' = [w \in 1..concurrency |-> 0]
    /\ cancelled' = [w \in 1..concurrency |-> FALSE]
    /\ mainpc' = IF join_blocks(unfinished) THEN "join" ELSE "cancel"
    /\ UNCHANGED <<config, visited, results, queue, unfinished, inflight, output,
                   admitted, pushes, returned>>

\* `for w in workers: w.cancel()`
run_cancel ==
    /\ mainpc = "cancel"
    /\ cancelled' = [w \in DOMAIN cancelled |-> TRUE]
    /\ mainpc' = "gather"
    /\ UNCHANGED <<config, visited, results, queue, unfinished, wpc, held, midx,
                   inflight, output, admitted, pushes, returned>>

\* gather returns once every worker has ended; save_results dumps self.results
run_save ==
    /\ mainpc = "gather"
    /\ \A w \in DOMAIN wpc : wpc[w] = "exit"
    /\ mainpc' = "saved"
    /\ output' = << results >>
    /\ UNCHANGED <<config, visited, results, queue, unfinished, wpc, held, midx,
                   cancelled, inflight, admitted, pushes, returned>>

-----------------------------------------------------------------------------

worker(w) ==
    \/ worker_get(w)
    \/ fetch_failed(w)
    \/ fetch_answered(w)
    \/ extract_failed(w)
    \/ worker_cancelled(w)

run == run_start \/ run_cancel \/ run_save

Next == run \/ \E w \in 1..MaxConcurrency : worker(w)

Spec == Init /\ [][Next]_vars

\* The event loop as asyncio schedules it: a task that is ready (a worker
\* whose queue.get() can return, a cancelled worker) runs before the
\* completion of a request is handled.  LoopSpec adds the six-page site.
ReadyWorker(w) ==
    /\ w \in DOMAIN wpc
    /\ \/ wpc[w] = "get" /\ ~cancelled[w] /\ queue # << >>
       \/ wpc[w] \in {"get", "fetch"} /\ cancelled[w]

NoneReady == \A v \in 1..MaxConcurrency : ~ReadyWorker(v)

LoopNext ==
    \/ run
    \/ \E w \in 1..MaxConcurrency :
          \/ worker_get(w)
          \/ worker_cancelled(w)
          \/ NoneReady /\ fetch_failed(w)
          \/ NoneReady /\ fetch_answered(w)
          \/ NoneReady /\ extract_failed(w)

LoopSpec == LoopInit /\ [][LoopNext]_vars

\* The event loop of LoopSpec in front of a site one page of which answers
\* late: a request to that page returns only when no request to another
\* page is outstanding.  The response times are the site's to choose, so
\* every behaviour of SlowSpec is a run of the program; SlowSpec has the
\* six-page site on which every request is answered.
Slow(url) == url.path = "c"

Prompt(w) ==
    /\ w \in DOMAIN wpc
    /\ wpc[w] = "fetch"
    /\ Slow(held[w][1]) => \A p \in inflight : p[1] = w

SlowNext ==
    \/ run
    \/ \E w \in 1..MaxConcurrency :
          \/ worker_get(w)
          \/ worker_cancelled(w)
          \/ NoneReady /\ Prompt(w) /\ fetch_failed(w)
          \/ NoneReady /\ Prompt(w) /\ fetch_answered(w)
          \/ NoneReady /\ Prompt(w) /\ extract_failed(w)

SlowSpec == SlowInit /\ [][SlowNext]_vars

\* The event loop runs every task that can run; every request returns.
FairSpec ==
    /\ Spec
    /\ WF_vars(run)
    /\ \A w \in 1..MaxConcurrency : WF_vars(worker(w))

-----------------------------------------------------------------------------
(* What the claims speak of. *)

RECURSIVE Copies(_, _)
\* the number of elements of bag B that lie in the set S
Copies(B, S) ==
    IF S = {} THEN 0
    ELSE LET e == CHOOSE x \in S : TRUE
         IN  CopiesIn(e, B) + Copies(B, S \ {e})

\* how often url was put on the queue, at any depth
PushCount(url) == Copies(pushes, { e \in BagToSet(pushes) : e[1] = url })

\* how often url passed the guard of process_url, at any depth
AdmitCount(url) == Copies(admitted, { e \in BagToSet(admitted) : e[1] = url })

\* how many requests (url, method) have returned with the given result
ReturnCountAs(url, method, how) == CopiesIn(<<url, method, how>>, returned)

\* how many requests (url, method) have returned
ReturnCount(url, method) ==
    ReturnCountAs(url, method, "ok") + ReturnCountAs(url, method, "fail")

\* how many outcomes the log holds for (url, method)
LogCount(url, method) ==
    Cardinality({ i \in 1..Len(results) :
                    results[i].url = url /\ results[i].method = method })

Pushed == { e[1] : e \in BagToSet(pushes) }

Probed == { e[1] : e \in BagToSet(returned) } \cup { p[2] : p \in inflight }

\* the addresses an answered GET of page p puts on the queue
LinksOf(p) ==
    LET r == fetch(p, "GET")
    IN  IF r.status # None /\ drives_links("GET", r) /\ ~extract_raises(r.content)
        THEN extract_links(r.content, p)
        ELSE {}

Quiescent ==
    /\ queue = << >>
    /\ unfinished = 0
    /\ inflight = {}
    /\ \A w \in DOMAIN wpc : wpc[w] # "fetch" /\ held[w] = << >>

-----------------------------------------------------------------------------
(* C1 *)

\* C1: each address passes the visited check-and-insert of process_url at
\* most once in a run, however many times it is put on the queue and
\* whichever workers dequeue it: no request (address, method) is issued
\* twice and the result log never holds two outcomes for one pair.
C1_ProcessedOnce ==
    /\ \A url \in Pushed : AdmitCount(url) <= 1
    /\ \A url \in Pushed : \A i \in 1..Len(methods) :
          /\ ReturnCount(url, methods[i])
               + Cardinality({ p \in inflight : p[2] = url /\ p[3] = methods[i] }) <= 1
          /\ LogCount(url, methods[i]) <= 1
    /\ \A url \in Pushed : AdmitCount(url) = 0 => url \notin Probed

\* two processed pages link to one address, it was queued more than once,
\* every copy has been dequeued and the run is over
C1_Witness ==
    /\ mainpc = "saved"
    /\ concurrency = 2
    /\ \E url \in visited :
          /\ PushCount(url) >= 2
          /\ Cardinality({ p \in visited : url \in LinksOf(p) }) >= 2
          /\ LogCount(url, "GET") = 1

-----------------------------------------------------------------------------
(* C2 *)

\* C2 (as claimed): an address is put on the queue at most once in a run,
\* over all depths and all workers.
C2_PushedAtMostOnce == \A url \in Pushed : PushCount(url) <= 1

\* C2 (amended): the queue does not deduplicate.  An address is put on the
\* queue once for the seed and once by every processed page whose answered
\* HTML GET links to it, and by nothing else; once the run is over it has
\* been put exactly that often.
C2_PushedOncePerLinkingPage ==
    \A url \in Pushed :
        LET n == (IF url = start_url THEN 1 ELSE 0)
                   + Cardinality({ p \in visited : url \in LinksOf(p) })
        IN  /\ PushCount(url) <= n
            /\ mainpc = "saved" => PushCount(url) = n

\* an address was put on the queue by two pages, while its first item was
\* still being processed
C2_Witness ==
    \E url \in Pushed :
        /\ PushCount(url) >= 2
        /\ url # start_url
        /\ \E w \in DOMAIN wpc : wpc[w] = "fetch" /\ held[w][1] = url

-----------------------------------------------------------------------------
(* C3 *)

Terminated ==
    /\ mainpc = "saved"
    /\ Quiescent
    /\ \A w \in DOMAIN wpc : wpc[w] = "exit"
    /\ output = << results >>

\* C3: with at least one worker, every task that can run being run and
\* every request returning (FairSpec), the run ends: the queue is drained,
\* nothing is in flight, every worker has left its loop and the result log
\* has been saved; cyclic link graphs and failing requests included.
C3_Terminates == (concurrency >= 1) ~> Terminated

\* a run in which every request failed has ended with an empty log
C3_Witness ==
    /\ Terminated
    /\ concurrency >= 1
    /\ results = << >>
    /\ \E e \in BagToSet(returned) : e[3] = "fail"

-----------------------------------------------------------------------------
(* C4 *)

\* the items taken off the queue so far
Popped == BagCardinality(pushes) - Len(queue)

\* C4: queue.join() returns only when the queue is empty and no worker is
\* between taking an item and task_done(): while a worker is still inside
\* process_url, or an item it has put is still queued, run() stays in join.
C4_JoinOnlyWhenQuiescent ==
    /\ mainpc \in {"cancel", "gather", "saved"} => Quiescent
    /\ (queue # << >> \/ \E w \in DOMAIN wpc : wpc[w] = "fetch")
          => mainpc \in {"new", "join"}

\* join has returned in a run of two workers once all four pages of the
\* diamond were processed: every item but the seed was put while run() was
\* waiting, by a worker inside process_url
C4_Witness ==
    /\ mainpc = "cancel"
    /\ concurrency = 2
    /\ web = WebDiamond
    /\ Cardinality(visited) = 4
    /\ Popped = BagCardinality(pushes)
    /\ Popped >= 6

-----------------------------------------------------------------------------
(* C5 *)

\* C5: no item of depth > max_depth is processed: every item that passed
\* the guard of process_url, every item a worker holds, every request
\* issued and every outcome in the log belongs to an item dequeued with
\* depth <= max_depth; with max_depth = 0 only the seed is ever requested.
C5_DepthBoundOnProcessing ==
    /\ \A e \in BagToSet(admitted) : e[2] <= max_depth
    /\ \A w \in DOMAIN wpc : wpc[w] = "fetch" => held[w][2] <= max_depth
    /\ \A url \in Probed : \E e \in BagToSet(admitted) : e[1] = url /\ e[2] <= max_depth
    /\ \A i \in 1..Len(results) :
          \E e \in BagToSet(admitted) : e[1] = results[i].url /\ e[2] <= max_depth
    /\ max_depth = 0 => Probed \subseteq {start_url}

\* an item deeper than max_depth was dequeued and dropped: the run is over
\* and its address was never requested
C5_Witness ==
    /\ mainpc = "saved"
    /\ \E e \in BagToSet(pushes) :
          /\ e[2] > max_depth
          /\ e[1] \notin visited
          /\ e[1] \notin Probed
    /\ Len(results) > 0

-----------------------------------------------------------------------------
(* C6 *)

\* C6 (as claimed): a discovered address is put on the queue only if the
\* discovering item's depth + 1 <= max_depth, so the queue never holds an
\* item of depth > max_depth and with max_depth = 0 only the seed is put.
C6_PushedWithinDepth ==
    /\ \A e \in BagToSet(pushes) : e[2] <= max_depth
    /\ \A i \in 1..Len(queue) : queue[i][2] <= max_depth
    /\ max_depth = 0 => Pushed = {start_url}

\* C6 (amended): links are put on the queue with the discovering item's
\* depth + 1 and no depth test; as the discovering item was processed at a
\* depth <= max_depth, the queue holds items of depth max_depth + 1 at
\* most.  The bound is applied at dequeue: with max_depth = 0 the links of
\* the seed are put with depth 1 and dropped without a request.
C6_PushedOneBeyondDepth ==
    /\ \A e \in BagToSet(pushes) : e[2] <= max_depth + 1
    /\ \A i \in 1..Len(queue) : queue[i][2] <= max_depth + 1
    /\ \A e \in BagToSet(pushes) :
          e[2] > 0 => \E p \in BagToSet(admitted) :
                          /\ e[1] \in LinksOf(p[1])
                          /\ e[2] = p[2] + 1
    /\ max_depth = 0 => Probed \subseteq {start_url}

\* with max_depth = 0 a link of the seed sits in the queue with depth 1
C6_Witness ==
    /\ max_depth = 0
    /\ \E i \in 1..Len(queue) : queue[i][2] = 1 /\ queue[i][1] # start_url

-----------------------------------------------------------------------------
(* C7 *)

\* C7 (as claimed): every request that returns, answered or failed, has
\* appended exactly one outcome, a failed one with status and headers
\* absent; once the run is over every processed address has one outcome
\* for each of the six methods.
C7_EveryProbeRecorded ==
    /\ \A url \in Pushed : \A i \in 1..Len(methods) :
          LogCount(url, methods[i]) = ReturnCount(url, methods[i])
    /\ mainpc = "saved" =>
          \A url \in visited : \A i \in 1..Len(methods) :
              LogCount(url, methods[i]) = 1

\* C7 (amended): every request that is answered appends exactly one outcome
\* and a request that fails appends none, so the log holds no outcome with
\* an absent status; once the run is over every processed address has one
\* outcome for each method whose request was answered and none for the
\* others (seed GET answered and linking to /x, every other request failed,
\* max_depth = 1: one entry in all, the seed's GET).
C7_AnsweredProbesRecorded ==
    /\ \A url \in Pushed : \A i \in 1..Len(methods) :
          /\ LogCount(url, methods[i]) = ReturnCountAs(url, methods[i], "ok")
          /\ LogCount(url, methods[i]) <= 1
    /\ \A i \in 1..Len(results) : results[i].status # None
    /\ mainpc = "saved" =>
          \A url \in visited : \A i \in 1..Len(methods) :
              LET answered == fetch(url, methods[i]).status # None
              IN  /\ answered /\ ReturnCount(url, methods[i]) = 1
                        => LogCount(url, methods[i]) = 1
                  /\ ~answered => LogCount(url, methods[i]) = 0

\* the run of the example is over: the seed and /x were processed, eleven
\* requests failed and the log holds the seed's GET alone
C7_Witness ==
    /\ mainpc = "saved"
    /\ web = WebP6
    /\ start_url = Url("http", "s")
    /\ max_depth = 1
    /\ visited = { Url("http", "s"), Url("http", "x") }
    /\ BagCardinality(returned) = 12
    /\ Len(results) = 1
    /\ results[1].method = "GET"

-----------------------------------------------------------------------------
(* C8 *)

RECURSIVE Within(_)
\* the addresses at most k links from the seed, through answered HTML GETs
Within(k) ==
    IF k = 0 THEN {start_url}
    ELSE LET R == Within(k - 1)
         IN  R \cup UNION { LinksOf(p) : p \in R }

\* the methods of a processed page that leave an outcome
Logged(url) ==
    LET r == fetch(url, "GET")
    IN  IF r.status # None /\ drives_links("GET", r) /\ extract_raises(r.content)
        THEN {"GET"}
        ELSE { m \in AllMethods : fetch(url, m).status # None }

\* what a breadth-first traversal leaves in the log
ExpectedPairs ==
    UNION { { <<url, m>> : m \in Logged(url) } : url \in Within(max_depth) }

LoggedPairs == { <<results[i].url, results[i].method>> : i \in 1..Len(results) }

\* with one worker the queue is served breadth first and the run leaves
\* ExpectedPairs
SequentialRunIsBreadthFirst ==
    mainpc = "saved" /\ concurrency = 1
        => LoggedPairs = ExpectedPairs /\ visited = Within(max_depth)

\* C8: for a fixed site, seed and max_depth the final set of (address,
\* method) pairs in the log and the final visited set are the same for
\* every number of workers and every interleaving: those of the one-worker
\* run.
C8_SameSetForEveryInterleaving ==
    mainpc = "saved" /\ concurrency >= 1
        => LoggedPairs = ExpectedPairs /\ visited = Within(max_depth)

-----------------------------------------------------------------------------
(* C9 *)

\* C9: at most `concurrency` requests are outstanding, one per worker at
\* most, and the methods of an item are requested one after the other: the
\* outstanding request of a worker is for the method it has reached in
\* `methods`, every earlier method of the item has returned and no later
\* one has been issued.
C9_OneRequestPerWorker ==
    /\ Cardinality(inflight) <= concurrency
    /\ \A w \in DOMAIN wpc : Cardinality({ p \in inflight : p[1] = w }) <= 1
    /\ \A p \in inflight :
          LET w == p[1]
          IN  /\ wpc[w] = "fetch"
              /\ p[2] = held[w][1]
              /\ p[3] = methods[midx[w]]
              /\ \A j \in 1..Len(methods) :
                    ReturnCount(p[2], methods[j]) = (IF j < midx[w] THEN 1 ELSE 0)
    /\ \A w \in DOMAIN wpc :
          wpc[w] = "fetch" /\ ~cancelled[w] => \E p \in inflight : p[1] = w

\* both workers have a request outstanding, one of them for the last method
C9_Witness ==
    /\ concurrency = 2
    /\ Cardinality(inflight) = 2
    /\ \E p \in inflight : p[3] = "OPTIONS"
    /\ \E p \in inflight : p[3] = "GET"

-----------------------------------------------------------------------------
(* C10 *)

Cancelled == \E w \in DOMAIN cancelled : cancelled[w]

\* every request of every processed item has returned: all six, or the GET
\* alone where extract_links raised
NothingLost ==
    \A e \in BagToSet(admitted) :
        LET url == e[1]
            r == fetch(url, "GET")
            raised == r.status # None /\ drives_links("GET", r) /\ extract_raises(r.content)
        IN  \A j \in 1..Len(methods) :
                ReturnCount(url, methods[j]) = (IF raised /\ j > 1 THEN 0 ELSE 1)

\* C10: the workers are cancelled only after join has found the queue
\* quiescent: whenever a worker is cancelled the queue is empty, no worker
\* holds an item, no request is outstanding and every request issued has
\* returned, so no request is aborted and no outcome lost; and once the
\* workers are cancelled (FairSpec) each leaves its loop and the log is
\* saved.
C10_CancelAfterQuiescence ==
    /\ [](Cancelled => Quiescent /\ NothingLost)
    /\ Cancelled ~> Terminated

\* the workers have just been cancelled, after both processed items, and
\* have not left their loops yet
C10_Witness ==
    /\ mainpc = "gather"
    /\ concurrency = 2
    /\ \A w \in DOMAIN wpc : cancelled[w] /\ wpc[w] = "get"
    /\ Cardinality(visited) >= 2
    /\ Len(results) >= 2

-----------------------------------------------------------------------------
(* C11 *)

\* C11: a seed whose scheme is not http or https is rejected before any
\* traversal starts: it is never put on the queue, no worker ever takes it
\* into process_url, no request is ever issued for it and no outcome is
\* ever appended.
C11_InvalidSeedRejected ==
    ~is_valid(start_url) =>
        /\ PushCount(start_url) = 0
        /\ AdmitCount(start_url) = 0
        /\ Probed = {}
        /\ results = << >>

-----------------------------------------------------------------------------
(* C12 *)

\* run() is suspended in queue.join() and nothing can resume it
WaitsForever == mainpc = "join" /\ ~ENABLED Next

\* C12: a concurrency <= 0 is a configuration error met before any
\* traversal starts: run() never waits forever in queue.join() on a queue
\* that holds the seed and has no worker to drain it.
C12_NoWorkersRejected ==
    concurrency <= 0 => ~(WaitsForever /\ queue # << >> /\ DOMAIN wpc = {})

-----------------------------------------------------------------------------
(* C13 *)

\* C13 (as claimed): an address enters visited when it is put on the queue:
\* every address that is queued or held by a worker, the seed from the
\* start of the run included, is in visited.
C13_VisitedWhenQueued ==
    /\ \A i \in 1..Len(queue) : queue[i][1] \in visited
    /\ \A w \in DOMAIN wpc : held[w] # << >> => held[w][1] \in visited

\* C13 (amended): an address enters visited when a worker dequeues an item
\* of it that passes the guard of process_url, in that step and before its
\* first request, not when it is put on the queue and not when its
\* processing ends: every address held by a worker is in visited, visited
\* is the set of addresses that passed the guard, nothing outside visited
\* has been requested, and until a worker has dequeued the seed visited is
\* empty although the seed is queued.
C13_VisitedWhenDequeued ==
    /\ \A w \in DOMAIN wpc : held[w] # << >> => held[w][1] \in visited
    /\ visited = { e[1] : e \in BagToSet(admitted) }
    /\ Probed \subseteq visited
    /\ mainpc = "new" => visited = {} /\ queue = << <<start_url, 0>> >>

\* a worker holds an address that is in visited and awaits its first
\* request, while an address that is not in visited waits in the queue
C13_Witness ==
    /\ \E w \in DOMAIN wpc :
          /\ wpc[w] = "fetch"
          /\ midx[w] = 1
          /\ held[w][1] \in visited
    /\ \E i \in 1..Len(queue) : queue[i][1] \notin visited

-----------------------------------------------------------------------------
(* C14 *)

\* the position of a method in `methods`
MethodIndex(method) == CHOOSE i \in 1..Len(methods) : methods[i] = method

\* C14: a request that fails stops nothing but itself.  After the request
\* of the j-th method of an address has failed, every later method of the
\* address has been requested and has returned, or a worker is still inside
\* process_url for the address, at a method after the j-th and not after
\* that one; no worker leaves its loop unless it was cancelled; and run()
\* goes past queue.join() only once every queued item was taken and every
\* address queued within max_depth was processed.
C14_FailureDoesNotPropagate ==
    /\ \A e \in BagToSet(returned) :
          e[3] = "fail" =>
              \A k \in (MethodIndex(e[2]) + 1)..Len(methods) :
                  \/ ReturnCount(e[1], methods[k]) = 1
                  \/ \E w \in DOMAIN wpc :
                        /\ wpc[w] = "fetch"
                        /\ held[w][1] = e[1]
                        /\ MethodIndex(e[2]) < midx[w]
                        /\ midx[w] <= k
    /\ \A w \in DOMAIN wpc : wpc[w] = "exit" => cancelled[w]
    /\ mainpc \in {"cancel", "gather", "saved"} =>
          /\ queue = << >>
          /\ \A e \in BagToSet(pushes) : e[2] <= max_depth => e[1] \in visited

\* the one worker saw the POST of the seed fail, requested the four other
\* methods, took the next item and is inside process_url for it
C14_Witness ==
    /\ concurrency = 1
    /\ web = WebP6
    /\ ReturnCountAs(Url("http", "s"), "POST", "fail") = 1
    /\ ReturnCountAs(Url("http", "s"), "OPTIONS", "fail") = 1
    /\ wpc[1] = "fetch"
    /\ held[1][1] = Url("http", "x")
    /\ midx[1] >= 2
    /\ mainpc = "join"

-----------------------------------------------------------------------------
(* C15 *)

\* the step is the return of worker w's request, and the request is a GET
\* that was answered with an HTML Content-Type and a non-empty body
HtmlGetReturns(w) ==
    LET cur == <<w, held[w][1], methods[midx[w]]>>
        r == fetch(held[w][1], "GET")
    IN  /\ wpc[w] = "fetch"
        /\ cur \in inflight
        /\ cur \notin inflight'
        /\ cur[3] = "GET"
        /\ r.status # None
        /\ IsHtml(r.headers.ContentType)
        /\ r.content # << >>

\* C15: items are put on the queue only by the step in which a GET request
\* returns answered, with an HTML Content-Type and a non-empty body, and
\* what that step puts are the addresses extracted from that body, each
\* once; a failed GET, a GET answered with another Content-Type and the
\* response of POST, PUT, DELETE, HEAD or OPTIONS put nothing, whatever the
\* body.
C15_OnlyHtmlGetPushes ==
    [][ pushes' # pushes =>
          \E w \in DOMAIN wpc :
              /\ HtmlGetReturns(w)
              /\ pushes' = pushes (+) SetToBag({ <<u, held[w][2] + 1>> :
                                 u \in extract_links(web[held[w][1].path].body, held[w][1]) })
      ]_vars

\* the run is over on the site with a JSON page: the GET of that page and
\* the POST of the seed were answered, both with a body that holds a
\* reference, and the address referred to by the JSON page was never put
C15_Witness ==
    /\ mainpc = "saved"
    /\ web = WebMixed
    /\ start_url = Url("http", "s")
    /\ ReturnCountAs(Url("http", "j"), "GET", "ok") = 1
    /\ ReturnCountAs(Url("http", "s"), "POST", "ok") = 1
    /\ PushCount(Url("http", "j")) = 1
    /\ PushCount(Url("http", "a")) = 0

-----------------------------------------------------------------------------
(* C16 *)

\* a worker is inside process_url for the address
HeldBySomeWorker(url) == \E w \in DOMAIN wpc : held[w] # << >> /\ held[w][1] = url

\* C16: the requests of a processed item are issued in the order of
\* `methods`, GET first, and task_done() is called for the item only after
\* the request of the last method has returned and every link of its GET
\* response has been put: while a worker holds an item the methods before
\* the one it awaits have returned and the others have not been requested,
\* and once no worker holds a processed item all six of its requests have
\* returned and all its links are on record as put with its depth + 1.
C16_AllMethodsThenDone ==
    /\ \A w \in DOMAIN wpc :
          wpc[w] = "fetch" =>
              \A j \in 1..Len(methods) :
                  ReturnCount(held[w][1], methods[j]) = (IF j < midx[w] THEN 1 ELSE 0)
    /\ \A e \in BagToSet(admitted) :
          ~HeldBySomeWorker(e[1]) =>
              /\ \A j \in 1..Len(methods) : ReturnCount(e[1], methods[j]) = 1
              /\ \A u \in LinksOf(e[1]) : <<u, e[2] + 1>> \in BagToSet(pushes)

-----------------------------------------------------------------------------
(* C17 *)

RECURSIVE Hops(_)
\* the addresses at the end of a chain of exactly k links from the seed,
\* each link one an answered HTML GET of the page before yields
Hops(k) ==
    IF k = 0 THEN {start_url}
    ELSE UNION { LinksOf(p) : p \in Hops(k - 1) }

\* the items the step puts on the queue
NewlyPut == { e \in DOMAIN pushes' : CopiesIn(e, pushes') > CopiesIn(e, pushes) }

\* C17: the depth of an item is the number of links along the path that
\* discovered it.  The seed, put once by __init__, is the only item ever
\* put with depth 0; every item (a, d) is at the end of a chain of exactly
\* d links from the seed; and every step that puts an item (a, d) is taken
\* by a worker inside process_url for an item (p, d - 1) whose GET
\* response links to a, so depth grows by one per link and never falls
\* along a chain.
C17_DepthCountsHops ==
    /\ [](\A e \in BagToSet(pushes) :
              /\ e[2] >= 0
              /\ e[2] = 0 => e = <<start_url, 0>> /\ CopiesIn(e, pushes) = 1
              /\ e[1] \in Hops(e[2]))
    /\ [][ \A e \in NewlyPut :
              \E w \in DOMAIN wpc :
                  /\ wpc[w] = "fetch"
                  /\ held[w][2] = e[2] - 1
                  /\ e[1] \in LinksOf(held[w][1])
         ]_vars

\* on the diamond the seed was put again, three links away from itself,
\* and the address both branches link to was put twice, with depth 2
C17_Witness ==
    /\ web = WebDiamond
    /\ <<start_url, 3>> \in BagToSet(pushes)
    /\ CopiesIn(<<start_url, 0>>, pushes) = 1
    /\ CopiesIn(<<Url("http", "x"), 2>>, pushes) = 2

-----------------------------------------------------------------------------
(* C18 *)

\* the step is the return of worker w's request, answered, and extends the
\* log at its end by the outcome of that request: the address and method
\* requested, the status and the headers of the response
AppendsOutcome(w) ==
    LET cur == <<w, held[w][1], methods[midx[w]]>>
        r == fetch(cur[2], cur[3])
    IN  /\ wpc[w] = "fetch"
        /\ cur \in inflight
        /\ cur \notin inflight'
        /\ r.status # None
        /\ results' = Append(results, [url     |-> cur[2],
                                       method  |-> cur[3],
                                       status  |-> r.status,
                                       headers |-> r.headers])

\* C18: the log is append-only.  Every step leaves self.results as it is or
\* extends it at the end by one outcome, complete when appended; no outcome
\* is removed, moved or changed; and the log changes only in the step in
\* which a request returns: taking an item, putting items, task_done(),
\* join, cancelling and saving leave it as it is.
C18_LogAppendOnly ==
    [][ \/ results' = results
        \/ \E w \in DOMAIN wpc : AppendsOutcome(w)
      ]_vars

\* two workers have appended in turn: the log holds an outcome of one
\* address between two outcomes of another, and it has been saved
C18_Witness ==
    /\ mainpc = "saved"
    /\ output = << results >>
    /\ \E i, j, k \in 1..Len(results) :
          /\ i < j
          /\ j < k
          /\ results[i].url = results[k].url
          /\ results[i].url # results[j].url

-----------------------------------------------------------------------------
(* C19 *)

\* the workers that have taken an item and not yet called task_done() for it
Holding == { w \in DOMAIN wpc : held[w] # << >> }

\* C19: task_done() is called exactly once for every item taken off the
\* queue, after process_url returned and after it raised alike: the
\* unfinished count of the queue is the number of items queued plus the
\* number of items workers hold, and is never negative.  So an error in
\* process_url neither ends the wait early (run() is past queue.join()
\* only with nothing queued and nothing held) nor blocks it (while run()
\* waits with at least one worker, a worker can take an item or awaits a
\* request).
C19_DoneOncePerItem ==
    /\ unfinished = Len(queue) + Cardinality(Holding)
    /\ unfinished >= 0
    /\ mainpc \in {"cancel", "gather", "saved"} => queue = << >> /\ Holding = {}
    /\ mainpc = "join" /\ concurrency >= 1 =>
          \/ \E w \in DOMAIN wpc : wpc[w] = "get" /\ queue # << >>
          \/ \E w \in DOMAIN wpc :
                wpc[w] = "fetch" /\ <<w, held[w][1], methods[midx[w]]>> \in inflight

\* extract_links raised for a page (its GET was answered, no other method
\* was requested, no worker holds it) and join has returned since
C19_Witness ==
    /\ mainpc = "cancel"
    /\ unfinished = 0
    /\ \E url \in visited :
          /\ ReturnCountAs(url, "GET", "ok") = 1
          /\ ReturnCount(url, "POST") = 0
          /\ ~HeldBySomeWorker(url)
    /\ Cardinality(visited) >= 3

-----------------------------------------------------------------------------
(* C20 *)

\* every request to a page of the site is answered, every link leads to a
\* page of the site and extract_links raises for none
AllProbesSucceed ==
    \A path \in DOMAIN web :
        /\ web[path].ok = AllMethods
        /\ ~extract_raises(web[path].body)
        /\ \A u \in extract_links(web[path].body, Url("http", path)) : u.path \in DOMAIN web

\* C20: whatever the number of workers and the interleaving, when every
\* request succeeds every address at most max_depth links from the seed
\* (through the links of HTML GET responses) has been requested with all
\* six methods by the time the run is over, also when a longer path
\* reached it first.
C20_CoverageUpToDepth ==
    mainpc = "saved" /\ concurrency >= 1 /\ AllProbesSucceed /\ is_valid(start_url) =>
        \A url \in Within(max_depth) :
            \A i \in 1..Len(methods) : ReturnCountAs(url, methods[i], "ok") = 1

====
